---- MODULE Spec2Model ----
(***************************************************************************)
(* Model of tensorflow_data_validation/statistics/stats_impl.py:           *)
(*   _merge_dataset_feature_stats_protos  (the Report Merger),             *)
(*   _filter_features, GenerateStatisticsImpl.expand (the Beam path) and   *)
(*   generate_statistics_in_memory (the synchronous path).                 *)
(*                                                                         *)
(* A FeatureNameStatistics proto is a record                               *)
(*   [name, kind, has_common, num_non_missing, num_missing]                *)
(* where kind is the case of the oneof 'stats' ("none" when WhichOneof     *)
(* returns None) and has_common says whether the sub-message of that kind  *)
(* has its common_stats field.  A DatasetFeatureStatistics proto is a      *)
(* record [features, num_examples]; num_examples is {} when the merger     *)
(* never assigned it and {n} when it assigned n.                           *)
(*                                                                         *)
(* The dict stats_per_feature is a sequence of references <<i, j>> to      *)
(* stats_protos[i].features[j] in insertion order (the iteration order of  *)
(* a Python dict): the merger stores the input message itself, not a copy. *)
(***************************************************************************)
EXTENDS Integers, Sequences, FiniteSets, TLC

\* ---------------------------------------------------------------- bounds
MaxCount == 1
MaxProtos == 2
MaxAlgProtos == 3
MaxGenerators == 2
MaxBatches == 2
MaxExamples == 2

\* ------------------------------------------------------------ value sets
FeatureNames == {"A", "B", "C"}
ReportNames == {"A", "B"}
Kinds == {"num_stats", "string_stats", "bytes_stats"}
Counts == 0..MaxCount

NoStats(n) ==
  [name |-> n, kind |-> "none", has_common |-> FALSE,
   num_non_missing |-> 0, num_missing |-> 0]

FeatureNameStatistics(names) ==
  { NoStats(n) : n \in names }
  \cup [name : names, kind : Kinds, has_common : {FALSE},
        num_non_missing : {0}, num_missing : {0}]
  \cup [name : names, kind : Kinds, has_common : {TRUE},
        num_non_missing : Counts, num_missing : Counts]

DatasetFeatureStatistics(feats) == [features |-> feats, num_examples |-> {}]

\* The partial reports the merger is fed: a report with no entry or one entry.
InputProtos ==
  { DatasetFeatureStatistics(<<>>) }
  \cup { DatasetFeatureStatistics(<<f>>) : f \in FeatureNameStatistics(ReportNames) }

\* ------------------------------------------------------ protobuf MergeFrom
\* A merge rule that adds the counts instead of overwriting them.
MergeFromSum(dst, src) ==
  IF src.kind = "none" THEN dst
  ELSE LET base == IF dst.kind = src.kind THEN dst
                   ELSE [dst EXCEPT !.kind = src.kind, !.has_common = FALSE,
                                    !.num_non_missing = 0, !.num_missing = 0]
       IN IF ~src.has_common THEN base
          ELSE [base EXCEPT
                  !.has_common = TRUE,
                  !.num_non_missing = base.num_non_missing + src.num_non_missing,
                  !.num_missing = base.num_missing + src.num_missing]

\* dst.MergeFrom(src) on two FeatureNameStatistics of the same name: a oneof
\* case set in src replaces a different case of dst (which is cleared);
\* sub-messages merge field by field; a proto3 scalar of src overwrites the
\* one of dst when it is not the default 0.
MergeFrom(dst, src) ==
  IF src.kind = "none" THEN dst
  ELSE LET base == IF dst.kind = src.kind THEN dst
                   ELSE [dst EXCEPT !.kind = src.kind, !.has_common = FALSE,
                                    !.num_non_missing = 0, !.num_missing = 0]
       IN IF ~src.has_common THEN base
          ELSE [base EXCEPT
                  !.has_common = TRUE,
                  !.num_non_missing = IF src.num_non_missing # 0
                                      THEN src.num_non_missing
                                      ELSE base.num_non_missing,
                  !.num_missing = IF src.num_missing # 0
                                  THEN src.num_missing
                                  ELSE base.num_missing]

\* ------------------------------------------- _merge_dataset_feature_stats_protos
Deref(protos, ref) == protos[ref[1]].features[ref[2]]

\* A membership test that always answers "not present".
LookupNever(protos, refs, name) == 0

\* 'name in stats_per_feature': the position of the key, 0 when absent.
Lookup(protos, refs, name) ==
  IF \E k \in 1..Len(refs) : Deref(protos, refs[k]).name = name
  THEN CHOOSE k \in 1..Len(refs) : Deref(protos, refs[k]).name = name
  ELSE 0

\* The first loop, at stats_protos[i].features[j]: insert the message itself
\* under a new name, MergeFrom into the stored message otherwise.
RECURSIVE MergeLoop(_, _, _, _)
MergeLoop(protos, refs, i, j) ==
  IF i > Len(protos) THEN [protos |-> protos, refs |-> refs]
  ELSE IF j > Len(protos[i].features) THEN MergeLoop(protos, refs, i + 1, 1)
  ELSE LET f == protos[i].features[j]
           k == Lookup(protos, refs, f.name)
       IN IF k = 0
          THEN MergeLoop(protos, Append(refs, <<i, j>>), i, j + 1)
          ELSE LET r == refs[k]
                   merged == MergeFrom(Deref(protos, r), f)
               IN MergeLoop([protos EXCEPT ![r[1]].features[r[2]] = merged],
                            refs, i, j + 1)

\* Whether stats_proto.HasField('common_stats') for the sub-message the second
\* loop picks: num_stats when WhichOneof is 'num_stats', string_stats otherwise.
StatsProtoHasCommon(f) ==
  IF f.kind = "num_stats" THEN f.has_common
  ELSE f.kind = "string_stats" /\ f.has_common

\* The local num_examples after the second loop: {} is None.
RECURSIVE NumExamples(_, _)
NumExamples(feats, i) ==
  IF i > Len(feats) THEN {}
  ELSE IF StatsProtoHasCommon(feats[i])
       THEN { feats[i].num_non_missing + feats[i].num_missing }
       ELSE NumExamples(feats, i + 1)

\* The whole call: the returned proto and the argument list as the call leaves it.
MergeProtos(protos) ==
  LET m == MergeLoop(protos, <<>>, 1, 1)
      feats == [k \in 1..Len(m.refs) |-> Deref(m.protos, m.refs[k])]
  IN [result |-> [features |-> feats, num_examples |-> NumExamples(feats, 1)],
      protos |-> m.protos]

_merge_dataset_feature_stats_protos(protos) == MergeProtos(protos).result

\* ------------------------------------------------------------------ state
VARIABLES
  stats_protos,      \* the list of protos handed to the merger
  given,             \* the merger's argument as it was when the call began
  result,            \* the proto the merger returned
  other,             \* the proto returned by a second call it is compared with
  error,             \* the exception that ended the run, "none" if none
  pc,                \* position in the run
  path,              \* "beam" (GenerateStatisticsImpl) or "in_memory"
  options,           \* StatsOptions: generators, feature_whitelist
  stats_generators,  \* the generators to run, by capability
  batch,             \* the batch as built from the examples
  filtered,          \* the batch as handed to the generators
  accs,              \* per generator, the feature names it was fed
  nbatches,          \* batches processed on the Beam path
  calls,             \* the operations invoked so far
  composite          \* the DatasetFeatureStatisticsList returned: its datasets

mvars == <<stats_protos, given, result, other, error, pc>>
pvars == <<path, options, stats_generators, batch, filtered, accs, nbatches,
           calls, composite>>
vars == <<mvars, pvars>>

NoResult == [features |-> <<>>, num_examples |-> {}]

Init ==
  /\ stats_protos = <<>>
  /\ given = <<>>
  /\ result = NoResult
  /\ other = NoResult
  /\ error = "none"
  /\ pc = "input"
  /\ path = "none"
  /\ options = [generators |-> <<>>, feature_whitelist |-> <<>>]
  /\ stats_generators = <<>>
  /\ batch = <<>>
  /\ filtered = <<>>
  /\ accs = <<>>
  /\ nbatches = 0
  /\ calls = {}
  /\ composite = <<>>

\* A generator's output joins the list the merger will be called on.
AddProto ==
  /\ pc = "input"
  /\ Len(stats_protos) < MaxProtos
  /\ \E p \in InputProtos : stats_protos' = Append(stats_protos, p)
  /\ UNCHANGED <<given, result, other, error, pc, pvars>>

\* One call of the merger on the list: it has no raise statement, it rewrites
\* the messages of its argument that it stored in the dict, and it returns.
Merge ==
  /\ pc = "input"
  /\ LET m == MergeProtos(stats_protos)
     IN /\ given' = stats_protos
        /\ stats_protos' = m.protos
        /\ result' = m.result
  /\ error' = "none"
  /\ pc' = "merged"
  /\ UNCHANGED <<other, pvars>>

Next == AddProto \/ Merge

Spec == Init /\ [][Next]_vars

\* -------------------------------------------- the merger on permuted and
\* grouped lists (each call is given its own copy of the reports)
Orderings(n) ==
  { p \in [1..n -> 1..n] : \A a, b \in 1..n : p[a] = p[b] => a = b }

Permuted(protos, p) == [k \in 1..Len(protos) |-> protos[p[k]]]

\* The order first, first + 1, ..., n, 1, ..., first - 1.
Rotation(n, first) == [k \in 1..n |-> ((first + k - 2) % n) + 1]

AlgAddProto ==
  /\ pc = "input"
  /\ Len(stats_protos) < MaxAlgProtos
  /\ \E p \in InputProtos : stats_protos' = Append(stats_protos, p)
  /\ UNCHANGED <<given, result, other, error, pc, pvars>>

\* The merger on the list, and on a permutation of the list.
MergePermuted ==
  /\ pc = "input"
  /\ \E p \in Orderings(Len(stats_protos)) :
       /\ given' = Permuted(stats_protos, p)
       /\ other' = _merge_dataset_feature_stats_protos(Permuted(stats_protos, p))
  /\ result' = _merge_dataset_feature_stats_protos(stats_protos)
  /\ pc' = "permuted"
  /\ UNCHANGED <<stats_protos, error, pvars>>

\* CombineGlobally: the merger on each group of inputs, then on the list of
\* the groups' results.  The groups are a prefix and the rest, in order.
MergeGrouped ==
  /\ pc = "input"
  /\ \E cut \in 0..Len(stats_protos) :
       LET g1 == SubSeq(stats_protos, 1, cut)
           g2 == SubSeq(stats_protos, cut + 1, Len(stats_protos))
           r1 == _merge_dataset_feature_stats_protos(g1)
           r2 == _merge_dataset_feature_stats_protos(g2)
       IN /\ given' = <<r1, r2>>
          /\ other' = _merge_dataset_feature_stats_protos(<<r1, r2>>)
  /\ result' = _merge_dataset_feature_stats_protos(stats_protos)
  /\ pc' = "grouped"
  /\ UNCHANGED <<stats_protos, error, pvars>>

\* CombineGlobally with a single group: the merger on its own result.
MergeReentered ==
  /\ pc = "input"
  /\ result' = _merge_dataset_feature_stats_protos(stats_protos)
  /\ given' = <<result'>>
  /\ other' = _merge_dataset_feature_stats_protos(<<result'>>)
  /\ pc' = "reentered"
  /\ UNCHANGED <<stats_protos, error, pvars>>

NextAlgebra == AlgAddProto \/ MergePermuted \/ MergeGrouped \/ MergeReentered

SpecAlgebra == Init /\ [][NextAlgebra]_vars

\* ----------------------------------------------- the two entry points
NameOrder == <<"A", "B", "C">>

Range(seq) == { seq[k] : k \in 1..Len(seq) }

\* A batch maps each feature it has to its column; every column of a batch
\* has one position per record, so a column is given by the record count.
Batches ==
  { [n \in S |-> k] : S \in SUBSET FeatureNames, k \in 1..MaxExamples }

\* options.feature_whitelist: a list of feature names, <<>> when not given.
Whitelists ==
  { SelectSeq(NameOrder, LAMBDA n : n \in S) : S \in SUBSET FeatureNames }

GeneratorKinds == {"Combiner", "Transform", "Other"}

\* options.generators: the user's generators by what they extend (None is <<>>).
GeneratorLists ==
  UNION { [1..n -> GeneratorKinds] : n \in 0..MaxGenerators }

\* A projection that keeps every feature of the batch.
FilterNothing(b, feature_whitelist) == b

\* _filter_features: the whitelisted names that occur in the batch.
_filter_features(b, feature_whitelist) ==
  [n \in { m \in Range(feature_whitelist) : m \in DOMAIN b } |-> b[n]]

\* The dict comprehension of generate_statistics_in_memory: batch[name] for
\* every whitelisted name; a name the batch lacks is a KeyError.
InMemoryRaisesKeyError(b, feature_whitelist) ==
  \E n \in Range(feature_whitelist) : n \notin DOMAIN b

InMemoryProjection(b, feature_whitelist) ==
  [n \in Range(feature_whitelist) |-> b[n]]

\* isinstance against the base class: any statistics generator passes.
IsAnyGenerator(generator) == generator \in {"Combiner", "Transform"}

\* isinstance(generator, stats_generator.CombinerStatsGenerator)
IsCombiner(generator) == generator = "Combiner"

\* isinstance(generator, stats_generator.TransformStatsGenerator)
IsTransform(generator) == generator = "Transform"

\* The built-in generators of expand: common, numeric and string statistics
\* are combiners, top-k and uniques are transforms.
BeamDefaults == <<"Combiner", "Combiner", "Combiner", "Transform", "Transform">>

\* The built-in generators of generate_statistics_in_memory: all combiners.
InMemoryDefaults == <<"Combiner", "Combiner", "Combiner", "Combiner">>

\* What generator g reports for the features it was fed: one entry per
\* feature; the first generator (common statistics) fills the common counts.
GeneratorOutput(g, names) ==
  LET fed == SelectSeq(NameOrder, LAMBDA n : n \in names)
  IN DatasetFeatureStatistics(
       [k \in 1..Len(fed) |->
          [name |-> fed[k], kind |-> "num_stats", has_common |-> (g = 1),
           num_non_missing |-> IF g = 1 THEN 1 ELSE 0, num_missing |-> 0]])

\* _make_dataset_feature_statistics_list_proto: one dataset, a copy.
_make_dataset_feature_statistics_list_proto(stats_proto) == <<stats_proto>>

InitPipeline ==
  /\ stats_protos = <<>>
  /\ given = <<>>
  /\ result = NoResult
  /\ other = NoResult
  /\ error = "none"
  /\ pc = "start"
  /\ path \in {"beam", "in_memory"}
  /\ options \in [generators : GeneratorLists, feature_whitelist : Whitelists]
  /\ stats_generators = <<>>
  /\ batch = <<>>
  /\ filtered = <<>>
  /\ accs = <<>>
  /\ nbatches = 0
  /\ calls = {}
  /\ composite = <<>>

\* generate_statistics_in_memory, the loop over options.generators: the first
\* generator that is no combiner raises TypeError.
ValidateGenerators ==
  /\ path = "in_memory" /\ pc = "start"
  /\ IF \A k \in 1..Len(options.generators) : IsCombiner(options.generators[k])
     THEN /\ stats_generators' = InMemoryDefaults \o options.generators
          /\ pc' = "validated"
          /\ error' = error
     ELSE /\ stats_generators' = InMemoryDefaults
          /\ pc' = "failed"
          /\ error' = "TypeError"
  /\ UNCHANGED <<stats_protos, given, result, other, path, options, batch,
                 filtered, accs, nbatches, calls, composite>>

\* batch_util.merge_single_batch(examples): the examples are read here, into
\* one batch (no feature at all for an empty list).
MergeSingleBatch ==
  /\ path = "in_memory" /\ pc = "validated"
  /\ \E b \in Batches : batch' = b
  /\ calls' = calls \cup {"merge_single_batch"}
  /\ pc' = "batched"
  /\ UNCHANGED <<stats_protos, given, result, other, error, path, options,
                 stats_generators, filtered, accs, nbatches, composite>>

\* 'if options.feature_whitelist: batch = {...}'
FilterInMemory ==
  /\ path = "in_memory" /\ pc = "batched"
  /\ IF options.feature_whitelist = <<>>
     THEN filtered' = batch /\ pc' = "filtered" /\ error' = error
     ELSE IF InMemoryRaisesKeyError(batch, options.feature_whitelist)
          THEN filtered' = filtered /\ pc' = "failed" /\ error' = "KeyError"
          ELSE /\ filtered' = InMemoryProjection(batch, options.feature_whitelist)
               /\ pc' = "filtered" /\ error' = error
  /\ UNCHANGED <<stats_protos, given, result, other, path, options,
                 stats_generators, batch, accs, nbatches, calls, composite>>

\* outputs = [generator.extract_output(generator.add_input(
\*     generator.create_accumulator(), batch)) for generator in stats_generators]
RunGenerators ==
  /\ path = "in_memory" /\ pc = "filtered"
  /\ accs' = [g \in 1..Len(stats_generators) |-> DOMAIN filtered]
  /\ stats_protos' = [g \in 1..Len(stats_generators) |->
                        GeneratorOutput(g, DOMAIN filtered)]
  /\ calls' = calls \cup {"create_accumulator", "add_input", "extract_output"}
  /\ pc' = "ran"
  /\ UNCHANGED <<given, result, other, error, path, options, stats_generators,
                 batch, filtered, nbatches, composite>>

\* return _make_dataset_feature_statistics_list_proto(
\*     _merge_dataset_feature_stats_protos(outputs))
MergeOutputs ==
  /\ path = "in_memory" /\ pc = "ran"
  /\ LET m == MergeProtos(stats_protos)
     IN /\ given' = stats_protos
        /\ stats_protos' = m.protos
        /\ result' = m.result
        /\ composite' = _make_dataset_feature_statistics_list_proto(m.result)
  /\ calls' = calls \cup {"merge"}
  /\ pc' = "done"
  /\ UNCHANGED <<other, error, path, options, stats_generators, batch,
                 filtered, accs, nbatches>>

\* GenerateStatisticsImpl.expand builds the pipeline: a generator that is
\* neither a combiner nor a transform raises TypeError.
Expand ==
  /\ path = "beam" /\ pc = "start"
  /\ LET gens == BeamDefaults \o options.generators
     IN IF \A k \in 1..Len(gens) : IsCombiner(gens[k]) \/ IsTransform(gens[k])
        THEN /\ stats_generators' = gens
             /\ accs' = [g \in 1..Len(gens) |-> {}]
             /\ pc' = "running"
             /\ error' = error
        ELSE /\ stats_generators' = stats_generators
             /\ accs' = accs
             /\ pc' = "failed"
             /\ error' = "TypeError"
  /\ UNCHANGED <<stats_protos, given, result, other, path, options, batch,
                 filtered, nbatches, calls, composite>>

\* One batch flows through the pipeline: BatchExamples emits it,
\* RemoveNonWhitelistedFeatures maps it when a whitelist is given, and every
\* generator's stage (CombineGlobally or its ptransform) is fed the outcome.
ProcessBatch ==
  /\ path = "beam" /\ pc = "running"
  /\ nbatches < MaxBatches
  /\ \E b \in Batches :
       /\ batch' = b
       /\ filtered' = IF options.feature_whitelist # <<>>
                      THEN _filter_features(b, options.feature_whitelist)
                      ELSE b
  /\ accs' = [g \in 1..Len(stats_generators) |-> accs[g] \cup DOMAIN filtered']
  /\ nbatches' = nbatches + 1
  /\ calls' = calls \cup {"create_accumulator", "add_input"}
  /\ UNCHANGED <<stats_protos, given, result, other, error, pc, path, options,
                 stats_generators, composite>>

\* The end of the input: every generator emits its proto, Flatten gathers
\* them in an order Beam chooses (here: the generator order, started at any
\* generator), the merger reduces them and the list proto is made.
FlattenAndMerge ==
  /\ path = "beam" /\ pc = "running"
  /\ \E first \in 1..Len(stats_generators) :
       LET outputs == [g \in 1..Len(stats_generators) |->
                         GeneratorOutput(g, accs[g])]
           p == Rotation(Len(stats_generators), first)
           m == MergeProtos(Permuted(outputs, p))
       IN /\ given' = Permuted(outputs, p)
          /\ stats_protos' = m.protos
          /\ result' = m.result
          /\ composite' = _make_dataset_feature_statistics_list_proto(m.result)
  /\ calls' = calls \cup {"extract_output", "merge"}
  /\ pc' = "done"
  /\ UNCHANGED <<other, error, path, options, stats_generators, batch,
                 filtered, accs, nbatches>>

NextPipeline ==
  \/ ValidateGenerators \/ MergeSingleBatch \/ FilterInMemory
  \/ RunGenerators \/ MergeOutputs
  \/ Expand \/ ProcessBatch \/ FlattenAndMerge

SpecPipeline == InitPipeline /\ [][NextPipeline]_vars

\* ------------------------------------------------ vocabulary of the claims
RECURSIVE Flatten(_, _)
Flatten(protos, i) ==
  IF i > Len(protos) THEN <<>>
  ELSE protos[i].features \o Flatten(protos, i + 1)

\* The input entries of feature n, in input order.
EntriesOf(protos, n) ==
  LET Named(f) == f.name = n IN SelectSeq(Flatten(protos, 1), Named)

NamesOf(feats) == { feats[k].name : k \in 1..Len(feats) }

\* The reports (positions in the list) that carry an entry for n.
ReportsWith(protos, n) ==
  { i \in 1..Len(protos) : n \in NamesOf(protos[i].features) }

FeatureSet(r) == { r.features[k] : k \in 1..Len(r.features) }

SameReport(r1, r2) ==
  /\ FeatureSet(r1) = FeatureSet(r2)
  /\ Len(r1.features) = Len(r2.features)
  /\ r1.num_examples = r2.num_examples

RECURSIVE SumSeq(_, _)
SumSeq(vals, i) == IF i > Len(vals) THEN 0 ELSE vals[i] + SumSeq(vals, i + 1)

\* Two reports give the same feature two different specialization kinds.
KindConflict(protos) ==
  \E i1, i2 \in 1..Len(protos) :
    /\ i1 # i2
    /\ \E k1 \in 1..Len(protos[i1].features), k2 \in 1..Len(protos[i2].features) :
         LET f1 == protos[i1].features[k1]
             f2 == protos[i2].features[k2]
         IN /\ f1.name = f2.name
            /\ f1.kind \in Kinds /\ f2.kind \in Kinds
            /\ f1.kind # f2.kind

\* The kind of the last entry that has one.
LastKind(es) ==
  LET S == { k \in 1..Len(es) : es[k].kind # "none" }
  IN IF S = {} THEN "none"
     ELSE es[CHOOSE k \in S : \A l \in S : l <= k].kind

\* The entries of the last kind that follow the last entry of another kind.
LastRun(es) ==
  LET kind == LastKind(es)
      D == { k \in 1..Len(es) : es[k].kind \notin {kind, "none"} }
      start == IF D = {} THEN 0 ELSE CHOOSE k \in D : \A l \in D : l <= k
      OfKind(f) == f.kind = kind
  IN SelectSeq(SubSeq(es, start + 1, Len(es)), OfKind)

\* The last non-zero value among the given ones, 0 when there is none.
LastNonZero(vals) ==
  LET S == { k \in 1..Len(vals) : vals[k] # 0 }
  IN IF S = {} THEN 0 ELSE vals[CHOOSE k \in S : \A l \in S : l <= k]

NonMissing(es) == [k \in 1..Len(es) |-> es[k].num_non_missing]
Missing(es) == [k \in 1..Len(es) |-> es[k].num_missing]

\* --------------------------------------------------------------- claims

\* C1: the merger returns the same report (same per-feature entries, same
\* num_examples) on every permutation of its input list.
C1_Commutative ==
  pc = "permuted" => SameReport(result, other)

\* C2: merging each group and then merging the groups' results gives the same
\* report as merging the whole list once; merge([merge(xs)]) = merge(xs).
C2_GroupingIndependent ==
  pc \in {"grouped", "reentered"} => SameReport(result, other)

C4_KindConflictIsAnError ==
  (pc = "merged" /\ KindConflict(given)) =>
    (error = "SchemaConflict" /\ result = NoResult)

\* C5: num_examples is num_non_missing + num_missing of the first merged
\* entry whose common sub-record is present, whatever its kind, and it is
\* unset exactly when no merged entry carries a common sub-record.
C5_NumExamplesFromFirstCommon ==
  pc = "merged" =>
    LET feats == result.features
        S == { k \in 1..Len(feats) : feats[k].has_common }
    IN IF S = {} THEN result.num_examples = {}
       ELSE LET first == CHOOSE k \in S : \A l \in S : k <= l
            IN result.num_examples =
                 { feats[first].num_non_missing + feats[first].num_missing }

\* C6: the merger leaves every input report as it was before the call.
C6_InputsUnchanged ==
  pc = "merged" => stats_protos = given

\* C7: the feature names of the merged report are exactly the names that
\* occur in some input report, and each name has exactly one merged entry.
C7_UnionKeyedByName ==
  pc = "merged" =>
    /\ NamesOf(result.features) = NamesOf(Flatten(given, 1))
    /\ \A k1, k2 \in 1..Len(result.features) :
         result.features[k1].name = result.features[k2].name => k1 = k2

\* Two reports with an entry for the same feature and a merged report with
\* one entry for it.
C7_Witness ==
  /\ pc = "merged"
  /\ \E n \in ReportNames :
       /\ Cardinality(ReportsWith(given, n)) = 2
       /\ \E k \in 1..Len(result.features) : result.features[k].name = n
       /\ Len(result.features) = 1

\* C8: with a non-empty feature whitelist, every batch handed to a generator
\* on either entry point holds whitelisted features only, no generator is
\* fed any other feature, and no other feature is in the merged report.
C8_WhitelistIsExclusive ==
  options.feature_whitelist # <<>> =>
    /\ DOMAIN filtered \subseteq Range(options.feature_whitelist)
    /\ \A g \in 1..Len(accs) : accs[g] \subseteq Range(options.feature_whitelist)
    /\ pc = "done" =>
         NamesOf(result.features) \subseteq Range(options.feature_whitelist)

\* The Beam path ran to the end with whitelist [A, C] on a batch that has A,
\* B and C: the generators were fed A and C, and the report has A and C.
C8_Witness ==
  /\ path = "beam" /\ pc = "done"
  /\ options.feature_whitelist = <<"A", "C">>
  /\ DOMAIN batch = {"A", "B", "C"}
  /\ DOMAIN filtered = {"A", "C"}
  /\ NamesOf(result.features) = {"A", "C"}

\* C9: on the in-memory path, a user generator that is no combiner makes the
\* run fail with TypeError before the examples are read: no batch is built,
\* no generator method is called and no composite report is returned.
C9_NonCombinerFailsFast ==
  (/\ path = "in_memory"
   /\ \E k \in 1..Len(options.generators) : options.generators[k] # "Combiner")
  => /\ pc \in {"start", "failed"}
     /\ pc = "failed" => error = "TypeError"
     /\ calls = {}
     /\ batch = <<>> /\ filtered = <<>>
     /\ stats_protos = <<>>
     /\ composite = <<>>

\* The in-memory path was given a transform generator and has failed.
C9_Witness ==
  /\ path = "in_memory"
  /\ \E k \in 1..Len(options.generators) : options.generators[k] = "Transform"
  /\ pc = "failed"
  /\ error = "TypeError"
  /\ calls = {}

\* C10: for every batch and non-empty whitelist, also one that names a
\* feature the batch lacks, the in-memory path raises no error and hands its
\* generators the batch _filter_features returns.
C10_SameProjectionOnBothPaths ==
  (/\ path = "in_memory"
   /\ options.feature_whitelist # <<>>
   /\ "merge_single_batch" \in calls
   /\ pc \in {"filtered", "failed"})
  => /\ error = "none"
     /\ pc = "filtered"
     /\ filtered = _filter_features(batch, options.feature_whitelist)

====
